---- MODULE Spec2Model ----
(***************************************************************************)
(* Model of src/regex.py: the node classes (StartState, TerminationState,  *)
(* DotState, AsciiState, StarState, PlusState) and RegexFSM (__init__,     *)
(* __init_next_state, get_closure, check_string).                          *)
(*                                                                         *)
(* The heap is the sequence `nodes` of allocated State objects in          *)
(* allocation order; a node is named by its index, and 0 stands for None.  *)
(* No class ever assigns self.next_states, so `x.next_states` always       *)
(* resolves to the class attribute declared in the class body: there is    *)
(* one list per class, and `classNextStates` holds those six lists.        *)
(*                                                                         *)
(* `automata` holds the RegexFSM objects the constructor returned, `built` *)
(* the history of constructor calls and `lastCall` the last check_string   *)
(* call with its result: "True", "False", or "Raise" when the call ends in *)
(* an exception.                                                           *)
(***************************************************************************)
EXTENDS Integers, Sequences, FiniteSets, TLC

VARIABLES nodes, classNextStates, automata, built, lastCall

vars == <<nodes, classNextStates, automata, built, lastCall>>

-----------------------------------------------------------------------------
(* Bounds of the model *)

(* objects on the heap, those of the demonstration automaton not counted *)
MaxNodes == 8

(* length of the enumerated patterns *)
MaxPatLen == 2

(* length of the enumerated input strings *)
MaxStrLen == 2

-----------------------------------------------------------------------------
(* Characters, patterns and input strings *)

None == 0

Kinds == {"StartState", "TerminationState", "DotState", "AsciiState", "StarState", "PlusState"}

NonAsciiChar == "U+00E9"

(* characters of the enumerated input strings *)
TextChars == {"a", "b"}

(* characters of the enumerated patterns: a literal, the wildcard and the *)
(* two quantifiers                                                        *)
PatternChars == {"a", ".", "*", "+"}

RECURSIVE SeqsUpTo(_, _)
SeqsUpTo(S, n) ==
    IF n = 0 THEN {<<>>}
    ELSE LET shorter == SeqsUpTo(S, n - 1)
         IN shorter \cup {Append(w, c) : w \in {v \in shorter : Len(v) = n - 1}, c \in S}

DemoPattern == <<"a", "*", "4", ".", "+", "h", "i">>

DemoAccept1 == <<"a", "a", "a", "a", "a", "a", "4", "u", "h", "i">>

DemoAccept2 == <<"4", "u", "h", "i">>

DemoReject == <<"m", "e", "o", "w">>

DemoA44hi == <<"a", "4", "4", "h", "i">>

Patterns == SeqsUpTo(PatternChars, MaxPatLen)

Texts == SeqsUpTo(TextChars, MaxStrLen)

DemoTexts == {DemoAccept1, DemoAccept2, DemoReject, DemoA44hi}

IsQuantifier(c) == c \in {"*", "+"}

(* str.isascii() answering True for every character *)
isascii_always(c) == TRUE

(* str.isascii() *)
isascii(c) == c # NonAsciiChar

-----------------------------------------------------------------------------
(* Node classes *)

StartState == [kind |-> "StartState", curr_sym |-> "", checking_state |-> None]

TerminationState == [kind |-> "TerminationState", curr_sym |-> "", checking_state |-> None]

DotState == [kind |-> "DotState", curr_sym |-> "", checking_state |-> None]

AsciiState(symbol) == [kind |-> "AsciiState", curr_sym |-> symbol, checking_state |-> None]

StarState(checking) == [kind |-> "StarState", curr_sym |-> "", checking_state |-> checking]

PlusState(checking) == [kind |-> "PlusState", curr_sym |-> "", checking_state |-> checking]

(* x.next_states for the node x of heap h: the list of x's class *)
next_states(h, x) == h.cls[h.nodes[x].kind]

(* x.next_states.append(y) *)
append(h, x, y) == [h EXCEPT !.cls[h.nodes[x].kind] = Append(@, y)]

(* allocation of a new object *)
alloc(h, obj) == [h EXCEPT !.nodes = Append(@, obj)]

newest(h) == Len(h.nodes)

-----------------------------------------------------------------------------
(* RegexFSM.__init_next_state: the object for a token, or the raise *)

__init_next_state(next_token, tmp_next_state) ==
    IF next_token = "." THEN [raised |-> FALSE, obj |-> DotState]
    ELSE IF next_token = "*" THEN [raised |-> FALSE, obj |-> StarState(tmp_next_state)]
    ELSE IF next_token = "+" THEN [raised |-> FALSE, obj |-> PlusState(tmp_next_state)]
    ELSE IF isascii(next_token) THEN [raised |-> FALSE, obj |-> AsciiState(next_token)]
    ELSE [raised |-> TRUE, obj |-> StartState]

(* the zero-or-more branch of the loop of RegexFSM.__init__ *)
WireStar(h, current_state, obj) ==
    LET h1 == alloc(h, obj)
        char_state == newest(h1)
        h2 == alloc(h1, StarState(char_state))
        star_state == newest(h2)
        h3 == append(h2, current_state, star_state)
        h4 == append(h3, star_state, char_state)
        h5 == append(h4, char_state, star_state)
    IN [heap |-> h5, current_state |-> star_state]

(* the one-or-more branch *)
WirePlus(h, current_state, obj) ==
    LET h1 == alloc(h, obj)
        char_state == newest(h1)
        h2 == alloc(h1, PlusState(char_state))
        plus_state == newest(h2)
        h3 == append(h2, current_state, char_state)
        h4 == append(h3, char_state, plus_state)
        h5 == append(h4, plus_state, char_state)
    IN [heap |-> h5, current_state |-> plus_state]

(* the unquantified branch *)
WirePlain(h, current_state, obj) ==
    LET h1 == alloc(h, obj)
        new_state == newest(h1)
        h2 == append(h1, current_state, new_state)
    IN [heap |-> h2, current_state |-> new_state]

(* the while loop of RegexFSM.__init__ from position index (1-based here), *)
(* then the termination node; raised = __init_next_state raised, and the   *)
(* appends made before the raise stay in the class lists                   *)
RECURSIVE BuildLoop(_, _, _, _)
BuildLoop(regex_expr, index, h, current_state) ==
    IF index > Len(regex_expr)
    THEN LET h1 == alloc(h, TerminationState)
             termination_node == newest(h1)
         IN [heap |-> append(h1, current_state, termination_node), raised |-> FALSE]
    ELSE LET token == regex_expr[index]
             next_char_is_star == index + 1 <= Len(regex_expr) /\ regex_expr[index + 1] = "*"
             next_char_is_plus == index + 1 <= Len(regex_expr) /\ regex_expr[index + 1] = "+"
             made == __init_next_state(token, None)
         IN IF made.raised THEN [heap |-> h, raised |-> TRUE]
            ELSE IF next_char_is_star
            THEN LET w == WireStar(h, current_state, made.obj)
                 IN BuildLoop(regex_expr, index + 2, w.heap, w.current_state)
            ELSE IF next_char_is_plus
            THEN LET w == WirePlus(h, current_state, made.obj)
                 IN BuildLoop(regex_expr, index + 2, w.heap, w.current_state)
            ELSE LET w == WirePlain(h, current_state, made.obj)
                 IN BuildLoop(regex_expr, index + 1, w.heap, w.current_state)

(* RegexFSM.__init__ on heap h: the heap afterwards, the new automaton and *)
(* whether the constructor raised                                          *)
RegexFSM(h, regex_expr) ==
    LET h1 == alloc(h, StartState)
        fsm_head == newest(h1)
        r == BuildLoop(regex_expr, 1, h1, fsm_head)
    IN [heap |-> r.heap, raised |-> r.raised,
        fsm |-> [fsm_head |-> fsm_head, curr_state |-> fsm_head]]

-----------------------------------------------------------------------------
(* State.check_self, by class.  StartState.check_self returns the None of  *)
(* the abstract method, which is falsy.  StarState.check_self asks every   *)
(* entry of the StarState list in order; an entry that is itself a         *)
(* StarState walks the same list for the same character again and reaches  *)
(* itself, so the recursion never ends and Python raises RecursionError.   *)

RECURSIVE StarCheckSelf(_, _, _)
StarCheckSelf(h, char, i) ==
    IF i > Len(h.cls["StarState"]) THEN "False"
    ELSE LET state == h.nodes[h.cls["StarState"][i]]
         IN IF state.kind = "StarState" THEN "Raise"
            ELSE IF state.kind = "DotState" THEN "True"
            ELSE IF state.kind = "AsciiState" /\ state.curr_sym = char THEN "True"
            ELSE StarCheckSelf(h, char, i + 1)

(* check_self with DotState answering only for a literal '.' *)
check_self_dot_literal(h, x, char) ==
    LET state == h.nodes[x]
    IN IF state.kind = "DotState" THEN (IF char = "." THEN "True" ELSE "False")
       ELSE IF state.kind = "AsciiState"
       THEN (IF state.curr_sym = char THEN "True" ELSE "False")
       ELSE IF state.kind = "StarState" THEN StarCheckSelf(h, char, 1)
       ELSE "False"

check_self(h, x, char) ==
    LET state == h.nodes[x]
    IN IF state.kind = "DotState" THEN "True"
       ELSE IF state.kind = "AsciiState"
       THEN (IF state.curr_sym = char THEN "True" ELSE "False")
       ELSE IF state.kind = "StarState" THEN StarCheckSelf(h, char, 1)
       ELSE "False"

-----------------------------------------------------------------------------
(* RegexFSM.get_closure *)

IsWrapper(h, x) == h.nodes[x].kind \in {"StarState", "PlusState"}

(* list(states): Python fixes no order for a set; the closure returned is *)
(* the same for every order, and the model takes allocation order        *)
RECURSIVE ListOf(_)
ListOf(S) ==
    IF S = {} THEN <<>>
    ELSE LET x == CHOOSE y \in S : \A z \in S : y <= z
         IN <<x>> \o ListOf(S \ {x})

(* the inner for loops: the entries of `list` from position i on that are  *)
(* not `skip` and not yet in closing are added to closing and to the queue *)
(* the inner for loops without the `not in closing` test *)
RECURSIVE AddNextUnvisited(_, _, _, _, _)
AddNextUnvisited(list, i, skip, closing, queue) ==
    IF i > Len(list) THEN [closing |-> closing, queue |-> queue]
    ELSE IF list[i] # skip
    THEN AddNextUnvisited(list, i + 1, skip, closing \cup {list[i]}, Append(queue, list[i]))
    ELSE AddNextUnvisited(list, i + 1, skip, closing, queue)

RECURSIVE AddNext(_, _, _, _, _)
AddNext(list, i, skip, closing, queue) ==
    IF i > Len(list) THEN [closing |-> closing, queue |-> queue]
    ELSE IF list[i] # skip /\ list[i] \notin closing
    THEN AddNext(list, i + 1, skip, closing \cup {list[i]}, Append(queue, list[i]))
    ELSE AddNext(list, i + 1, skip, closing, queue)

RECURSIVE ClosureLoop(_, _, _)
ClosureLoop(h, closing, queue) ==
    IF queue = <<>> THEN closing
    ELSE LET current_state == Head(queue)
             rest == Tail(queue)
         IN IF IsWrapper(h, current_state)
            THEN LET r == AddNext(next_states(h, current_state), 1,
                                  h.nodes[current_state].checking_state, closing, rest)
                 IN ClosureLoop(h, r.closing, r.queue)
            ELSE IF h.nodes[current_state].kind = "StartState"
            THEN LET r == AddNext(next_states(h, current_state), 1, -1, closing, rest)
                 IN ClosureLoop(h, r.closing, r.queue)
            ELSE ClosureLoop(h, closing, rest)

get_closure(h, states) == ClosureLoop(h, states, ListOf(states))

(* get_closure with its worklist observed: entered lists every node in the *)
(* order it was put on the queue, the seeds first; the loop is followed    *)
(* for at most `fuel` iterations, and done says the queue became empty     *)
RECURSIVE ClosureRunLoop(_, _, _, _, _)
ClosureRunLoop(h, closing, queue, entered, fuel) ==
    IF queue = <<>> THEN [closing |-> closing, entered |-> entered, done |-> TRUE]
    ELSE IF fuel = 0 THEN [closing |-> closing, entered |-> entered, done |-> FALSE]
    ELSE LET current_state == Head(queue)
             rest == Tail(queue)
             r == IF IsWrapper(h, current_state)
                  THEN AddNext(next_states(h, current_state), 1,
                               h.nodes[current_state].checking_state, closing, rest)
                  ELSE IF h.nodes[current_state].kind = "StartState"
                  THEN AddNext(next_states(h, current_state), 1, -1, closing, rest)
                  ELSE [closing |-> closing, queue |-> rest]
         IN ClosureRunLoop(h, r.closing, r.queue,
                           entered \o SubSeq(r.queue, Len(rest) + 1, Len(r.queue)),
                           fuel - 1)

ClosureRun(h, states) ==
    ClosureRunLoop(h, states, ListOf(states), ListOf(states), Len(h.nodes))

-----------------------------------------------------------------------------
(* RegexFSM.check_string *)

Range(list) == {list[i] : i \in 1..Len(list)}

(* the node whose check_self an active state consults, None if it consumes nothing *)
Consulted(h, x) ==
    IF IsWrapper(h, x) THEN h.nodes[x].checking_state
    ELSE IF h.nodes[x].kind \in {"AsciiState", "DotState"} THEN x
    ELSE None

(* the body of the for loop over current_active_states raises: a wrapper   *)
(* whose checking_state is None (AttributeError), or a check_self that     *)
(* does not return (RecursionError)                                        *)
StepRaises(h, active, char) ==
    \E x \in active :
        \/ IsWrapper(h, x) /\ h.nodes[x].checking_state = None
        \/ Consulted(h, x) # None /\ check_self(h, Consulted(h, x), char) = "Raise"

(* next_active_states after the for loop *)
StepNext(h, active, char) ==
    UNION {Range(next_states(h, Consulted(h, x))) :
             x \in {y \in active : Consulted(h, y) # None
                                     /\ check_self(h, Consulted(h, y), char) = "True"}}

RECURSIVE CheckLoop(_, _, _, _)
CheckLoop(h, text_to_check, i, current_active_states) ==
    IF i > Len(text_to_check)
    THEN (IF \E final_state \in current_active_states :
                 h.nodes[final_state].kind = "TerminationState"
          THEN "True" ELSE "False")
    ELSE IF StepRaises(h, current_active_states, text_to_check[i]) THEN "Raise"
    ELSE LET next_active_states == StepNext(h, current_active_states, text_to_check[i])
         IN IF next_active_states = {} THEN "False"
            ELSE CheckLoop(h, text_to_check, i + 1, get_closure(h, next_active_states))

check_string(h, fsm, text_to_check) ==
    CheckLoop(h, text_to_check, 1, get_closure(h, {fsm.curr_state}))

-----------------------------------------------------------------------------
(* The process: the class bodies have run (RegexFSM.curr_state holds one   *)
(* StartState), then RegexFSM(...) and check_string calls in any order.    *)

Heap == [nodes |-> nodes, cls |-> classNextStates]

NoCall == [fsm |-> 0, text |-> <<>>, result |-> "none"]

(* objects the constructor allocates for a pattern: one per character, *)
(* the start node and the termination node                             *)
NodesOf(regex_expr) == Len(regex_expr) + 2

(* built[i] records the i-th constructor call: its pattern and the index *)
(* in automata of the object it returned, 0 if it raised                 *)
DemoBuilt == \E i \in 1..Len(built) : built[i].regex_expr = DemoPattern

(* the pattern automata[a] was built from *)
PatternOf(a) ==
    LET i == CHOOSE j \in 1..Len(built) : built[j].fsm = a
    IN built[i].regex_expr

DemoAutomata == {a \in 1..Len(automata) : PatternOf(a) = DemoPattern}

(* objects the constructor calls made so far allocate when none of them  *)
(* raises (a call that raises allocates fewer), with the StartState of   *)
(* RegexFSM.curr_state and without the demonstration automaton           *)
RECURSIVE NodesOfCalls(_)
NodesOfCalls(i) ==
    IF i = 0 THEN 1
    ELSE NodesOfCalls(i - 1)
           + (IF built[i].regex_expr = DemoPattern THEN 0 ELSE NodesOf(built[i].regex_expr))

HeapUsed == NodesOfCalls(Len(built))

Init ==
    /\ nodes = <<StartState>>
    /\ classNextStates = [k \in Kinds |-> <<>>]
    /\ automata = <<>>
    /\ built = <<>>
    /\ lastCall = NoCall

(* automaton = RegexFSM(regex_expr) *)
Build(regex_expr) ==
    /\ IF regex_expr = DemoPattern THEN ~DemoBuilt
       ELSE HeapUsed + NodesOf(regex_expr) <= MaxNodes
    /\ LET r == RegexFSM(Heap, regex_expr)
       IN /\ nodes' = r.heap.nodes
          /\ classNextStates' = r.heap.cls
          /\ automata' = IF r.raised THEN automata
                         ELSE Append(automata, r.fsm)
          /\ built' = Append(built, [regex_expr |-> regex_expr,
                                     fsm |-> IF r.raised THEN 0 ELSE Len(automata) + 1])
    /\ lastCall' = NoCall

(* check_string leaving self.curr_state on the first node after the start *)
CheckMovesCursor(a, text_to_check) ==
    /\ lastCall' = [fsm |-> a, text |-> text_to_check,
                    result |-> check_string(Heap, automata[a], text_to_check)]
    /\ automata' = [automata EXCEPT ![a].curr_state =
                       LET list == next_states(Heap, automata[a].curr_state)
                       IN IF list = <<>> THEN @ ELSE list[1]]
    /\ UNCHANGED <<nodes, classNextStates, built>>

(* check_string appending to active_state.next_states where the code adds *)
(* to next_active_states                                                  *)
CheckAppendsToEdges(a, text_to_check) ==
    /\ lastCall' = [fsm |-> a, text |-> text_to_check,
                    result |-> check_string(Heap, automata[a], text_to_check)]
    /\ classNextStates' =
          LET list == next_states(Heap, automata[a].curr_state)
          IN IF list = <<>> \/ text_to_check = <<>> THEN classNextStates
             ELSE [classNextStates EXCEPT !["StartState"] = Append(@, list[1])]
    /\ UNCHANGED <<nodes, automata, built>>

(* automata[a].check_string(text_to_check) *)
Check(a, text_to_check) ==
    /\ lastCall' = [fsm |-> a, text |-> text_to_check,
                    result |-> check_string(Heap, automata[a], text_to_check)]
    /\ UNCHANGED <<nodes, classNextStates, automata, built>>

Next ==
    \/ \E regex_expr \in Patterns : Build(regex_expr)
    \/ \E a \in 1..Len(automata), text_to_check \in Texts : Check(a, text_to_check)

Spec == Init /\ [][Next]_vars

(* the process of the __main__ block: the demonstration pattern is built, *)
(* before or after other patterns, and the demonstration inputs are run   *)
NextDemo ==
    \/ \E regex_expr \in Patterns \cup {DemoPattern} : Build(regex_expr)
    \/ \E a \in DemoAutomata, text_to_check \in DemoTexts : Check(a, text_to_check)

SpecDemo == Init /\ [][NextDemo]_vars

-----------------------------------------------------------------------------
(* Reference semantics of patterns, for the statements below *)

CharMatches(x, c) == x = "." \/ x = c

NoQuantifier(p) == \A i \in 1..Len(p) : ~IsQuantifier(p[i])

(* every quantifier directly follows a literal or '.' *)
WellFormed(p) ==
    \A i \in 1..Len(p) : IsQuantifier(p[i]) => i > 1 /\ ~IsQuantifier(p[i - 1])

(* the suffix of s from j is in the language of the suffix of p from i *)
RECURSIVE InLanguage(_, _, _, _)
InLanguage(p, i, s, j) ==
    IF i > Len(p) THEN j > Len(s)
    ELSE IF i + 1 <= Len(p) /\ p[i + 1] = "*"
    THEN \/ InLanguage(p, i + 2, s, j)
         \/ j <= Len(s) /\ CharMatches(p[i], s[j]) /\ InLanguage(p, i, s, j + 1)
    ELSE IF i + 1 <= Len(p) /\ p[i + 1] = "+"
    THEN /\ j <= Len(s)
         /\ CharMatches(p[i], s[j])
         /\ (InLanguage(p, i + 2, s, j + 1) \/ InLanguage(p, i, s, j + 1))
    ELSE j <= Len(s) /\ CharMatches(p[i], s[j]) /\ InLanguage(p, i + 1, s, j + 1)

Returned == lastCall.result # "none"

CalledPattern == PatternOf(lastCall.fsm)

AllMatch(x, s) == \A i \in 1..Len(s) : CharMatches(x, s[i])

-----------------------------------------------------------------------------
(* C1: for a pattern of literals and '.' only, check_string returns True   *)
(* exactly when the input has the pattern's length and every position      *)
(* equals the literal or the pattern has '.' there.                        *)
C1_LiteralPatternExact ==
    (Returned /\ NoQuantifier(CalledPattern))
        => ((lastCall.result = "True")
              <=> (/\ Len(lastCall.text) = Len(CalledPattern)
                   /\ \A i \in 1..Len(CalledPattern) :
                          CharMatches(CalledPattern[i], lastCall.text[i])))

(* C2: for a well-formed pattern, check_string returns True exactly when   *)
(* the whole input is in the language of the pattern.                      *)
C2_AcceptsLanguage ==
    (Returned /\ WellFormed(CalledPattern))
        => ((lastCall.result = "True")
              <=> InLanguage(CalledPattern, 1, lastCall.text, 1))

(* C3: the automaton of 'x*' accepts the empty string and every string of  *)
(* characters matching x, and rejects every string with a character that   *)
(* does not match x.                                                       *)
C3_StarPattern ==
    (/\ Returned
     /\ Len(CalledPattern) = 2
     /\ ~IsQuantifier(CalledPattern[1])
     /\ CalledPattern[2] = "*")
        => lastCall.result = (IF AllMatch(CalledPattern[1], lastCall.text)
                              THEN "True" ELSE "False")

(* C4: the automaton of 'x+' rejects the empty string and accepts every    *)
(* string of one or more characters matching x.                            *)
C4_PlusPattern ==
    (/\ Returned
     /\ Len(CalledPattern) = 2
     /\ ~IsQuantifier(CalledPattern[1])
     /\ CalledPattern[2] = "+")
        => /\ lastCall.text = <<>> => lastCall.result = "False"
           /\ (lastCall.text # <<>> /\ AllMatch(CalledPattern[1], lastCall.text))
                 => lastCall.result = "True"

(* C5: check_string returns True or False for every automaton the          *)
(* constructor returned and every input; it never raises.                  *)
C5_CheckStringTotal == Returned => lastCall.result \in {"True", "False"}

-----------------------------------------------------------------------------
(* The heap after a step, and the nodes an automaton can reach *)

HeapAfter == [nodes |-> nodes', cls |-> classNextStates']

RECURSIVE ReachableFrom(_, _)
ReachableFrom(h, seen) ==
    LET more == seen \cup UNION {Range(next_states(h, x)) : x \in seen}
    IN IF more = seen THEN seen ELSE ReachableFrom(h, more)

NodesOfAutomaton(h, fsm) == ReachableFrom(h, {fsm.fsm_head})

(* the heap of a process that has built nothing *)
EmptyHeap == [nodes |-> <<StartState>>, cls |-> [k \in Kinds |-> <<>>]]

(* the result of RegexFSM(p).check_string(s) in a process that builds only p *)
ResultAlone(p, s) ==
    LET r == RegexFSM(EmptyHeap, p)
    IN check_string(r.heap, r.fsm, s)

(* C6: once the constructor has returned, the next_states of every node    *)
(* reachable from the automaton's start node never changes again.          *)
C6_GraphImmutable ==
    [][\A a \in 1..Len(automata) :
          \A x \in NodesOfAutomaton(Heap, automata[a]) :
              next_states(HeapAfter, x) = next_states(Heap, x)]_vars

(* C7: the result of A.check_string(s) is the same before and after any    *)
(* other RegexFSM is constructed, and the result for an automaton built    *)
(* from p does not depend on the patterns built before it.                 *)
C7_AutomataIsolated ==
    [][/\ \A a \in 1..Len(automata) : \A s \in Texts :
             check_string(HeapAfter, automata[a], s) = check_string(Heap, automata[a], s)
       /\ \A a \in 1..Len(automata') : \A s \in Texts :
             check_string(HeapAfter, automata'[a], s) = ResultAlone(PatternOf(a)', s)]_vars

(* C8: a check_string call leaves the result of every call unchanged: in   *)
(* a step made by check_string, with the same or with another input, the   *)
(* call made before it returns the same result when it is made again.      *)
C8_RepeatedCallSameResult ==
    [][(lastCall.result # "none" /\ lastCall'.result # "none")
          => /\ check_string(HeapAfter, automata'[lastCall.fsm], lastCall.text)
                  = lastCall.result
             /\ (lastCall'.fsm = lastCall.fsm /\ lastCall'.text = lastCall.text)
                  => lastCall'.result = lastCall.result]_vars

(* a call has returned on an automaton that shares the process with another *)
C8_Witness ==
    /\ Len(automata) >= 2
    /\ lastCall.result = "True"
    /\ lastCall.text # <<>>

-----------------------------------------------------------------------------
(* The demonstration of the __main__ block *)

DemoCall(text) ==
    /\ Returned
    /\ CalledPattern = DemoPattern
    /\ lastCall.text = text

SomeMalformedBuilt == \E i \in 1..Len(built) : ~WellFormed(built[i].regex_expr)

(* C9: the automaton of 'a*4.+hi' accepts 'aaaaaa4uhi' and '4uhi' and      *)
(* rejects 'meow'.                                                         *)
C9_DemoResults ==
    /\ DemoCall(DemoAccept1) => lastCall.result = "True"
    /\ DemoCall(DemoAccept2) => lastCall.result = "True"
    /\ DemoCall(DemoReject) => lastCall.result = "False"

(* C10 as stated: the automaton of 'a*4.+hi' rejects 'a44hi'.              *)
C10_DemoRejectsA44hi == DemoCall(DemoA44hi) => lastCall.result = "False"

(* C10 as amended: the automaton of 'a*4.+hi' never rejects 'a44hi'; it    *)
(* accepts it, and the call raises only in a process in which a pattern    *)
(* with a quantifier in token position has been built.                     *)
C10_DemoAcceptsA44hi ==
    DemoCall(DemoA44hi)
        => \/ lastCall.result = "True"
           \/ lastCall.result = "Raise" /\ SomeMalformedBuilt

C10_Witness ==
    /\ DemoCall(DemoA44hi)
    /\ lastCall.result = "True"
    /\ Len(built) = 1

-----------------------------------------------------------------------------
(* C11: the automaton of the empty pattern accepts the empty string and    *)
(* rejects every non-empty string, whatever was done before it was built.  *)
C11_EmptyPattern ==
    (Returned /\ CalledPattern = <<>>)
        => lastCall.result = (IF lastCall.text = <<>> THEN "True" ELSE "False")

-----------------------------------------------------------------------------
(* Patterns with a bracket or a character outside ASCII *)

TokenChars == PatternChars \cup {"[", NonAsciiChar}

TokenPatterns == SeqsUpTo(TokenChars, MaxPatLen)

TokenTexts == {<<>>, <<"a">>, <<"[">>}

NextTokens ==
    \/ \E regex_expr \in TokenPatterns : Build(regex_expr)
    \/ \E a \in 1..Len(automata), text_to_check \in TokenTexts : Check(a, text_to_check)

SpecTokens == Init /\ [][NextTokens]_vars

(* the constructor call i raised and returned no automaton *)
Raised(i) == built[i].fsm = 0

Contains(p, c) == \E j \in 1..Len(p) : p[j] = c

(* C12: RegexFSM(p) raises and returns no automaton whenever p contains a  *)
(* character that is neither '.' nor ASCII, wherever it stands in p.       *)
C12_NonAsciiRaises ==
    \A i \in 1..Len(built) : Contains(built[i].regex_expr, NonAsciiChar) => Raised(i)

(* a constructor call raised on a character outside ASCII that follows a   *)
(* quantified token, after an automaton had been built                     *)
C12_Witness ==
    /\ Len(built) >= 2
    /\ ~Raised(1)
    /\ \E p \in {<<"a", "*", NonAsciiChar>>, <<"a", "+", NonAsciiChar>>,
                 <<"a", NonAsciiChar>>, <<".", NonAsciiChar>>} :
           built[Len(built)].regex_expr = p
    /\ Raised(Len(built))

(* C13: RegexFSM(p) raises when p contains a bracket character; it never   *)
(* returns an automaton for such a pattern.                                *)
C13_BracketRaises ==
    \A i \in 1..Len(built) : Contains(built[i].regex_expr, "[") => Raised(i)

-----------------------------------------------------------------------------
(* C14: RegexFSM(p) raises when a quantifier of p has no preceding         *)
(* quantifiable token: p starts with '*' or '+', or a quantifier directly  *)
(* follows a consumed quantifier.                                          *)
C14_MalformedQuantifierRaises ==
    \A i \in 1..Len(built) : ~WellFormed(built[i].regex_expr) => Raised(i)

(* C15: an automaton built from a pattern without '.' returns False for    *)
(* every input with a character that does not occur in the pattern, after  *)
(* any earlier builds and matches.                                         *)
C15_ForeignCharacterRejected ==
    (/\ Returned
     /\ ~Contains(CalledPattern, ".")
     /\ \E j \in 1..Len(lastCall.text) : ~Contains(CalledPattern, lastCall.text[j]))
        => lastCall.result = "False"

-----------------------------------------------------------------------------
(* C16: check_string changes nothing but its local sets: after a call the  *)
(* next_states lists, every checking_state and curr_sym, and the fsm_head  *)
(* and curr_state of every automaton are as before the call.               *)
C16_CheckStringFrame ==
    [][lastCall'.result # "none"
          => /\ classNextStates' = classNextStates
             /\ nodes' = nodes
             /\ automata' = automata]_vars

(* a call has consumed input on a heap with a quantifier loop *)
C16_Witness ==
    /\ Returned
    /\ Len(lastCall.text) = 2
    /\ lastCall.result \in {"True", "False"}
    /\ \E x \in 1..Len(nodes) : IsWrapper(Heap, x)

-----------------------------------------------------------------------------
(* x.next_states and y.next_states are one list object: the lookup of both *)
(* ends at the attribute of their common class                             *)
SameListObject(h, x, y) == x # y /\ h.nodes[x].kind = h.nodes[y].kind

(* C17: every node has its own edge list: the appends of a build change    *)
(* the outgoing edges of the nodes they are made on only, so the nodes     *)
(* that existed before keep theirs, and no two distinct nodes have one     *)
(* list in common.                                                         *)
C17_OwnEdgeList ==
    [][/\ \A x \in 1..Len(nodes) : next_states(HeapAfter, x) = next_states(Heap, x)
       /\ \A x, y \in 1..Len(nodes') : ~SameListObject(HeapAfter, x, y)]_vars

-----------------------------------------------------------------------------
Terminations(h, S) == {x \in S : h.nodes[x].kind = "TerminationState"}

(* C18: after any sequence of builds the nodes reachable from an           *)
(* automaton's fsm_head hold exactly one TerminationState, and no          *)
(* TerminationState has an outgoing edge.                                  *)
C18_OneTermination ==
    /\ \A a \in 1..Len(automata) :
          Cardinality(Terminations(Heap, NodesOfAutomaton(Heap, automata[a]))) = 1
    /\ \A x \in Terminations(Heap, 1..Len(nodes)) : next_states(Heap, x) = <<>>

-----------------------------------------------------------------------------
(* the process that makes the first i constructor calls of history b       *)
(* without those that raised: its heap and its automata                    *)
RECURSIVE WithoutFailedCalls(_, _)
WithoutFailedCalls(b, i) ==
    IF i = 0 THEN [heap |-> EmptyHeap, automata |-> <<>>]
    ELSE LET before == WithoutFailedCalls(b, i - 1)
         IN IF b[i].fsm = 0 THEN before
            ELSE LET r == RegexFSM(before.heap, b[i].regex_expr)
                 IN [heap |-> r.heap, automata |-> Append(before.automata, r.fsm)]

ResultWithoutFailedCalls(b, a, text) ==
    LET w == WithoutFailedCalls(b, Len(b))
    IN check_string(w.heap, w.automata[a], text)

(* C19: a constructor call that raises leaves no trace: the edge lists of  *)
(* the nodes that existed before it are unchanged, and every check_string  *)
(* result is the one of the process without the failed calls.              *)
C19_FailedBuildNoTrace ==
    [][/\ (Len(built') > Len(built) /\ built'[Len(built')].fsm = 0)
             => \A x \in 1..Len(nodes) : next_states(HeapAfter, x) = next_states(Heap, x)
       /\ lastCall'.result # "none"
             => lastCall'.result
                  = ResultWithoutFailedCalls(built', lastCall'.fsm, lastCall'.text)]_vars

-----------------------------------------------------------------------------
(* The graphs the constructor produces, for get_closure on any seed set *)

NextBuilds == \E regex_expr \in Patterns : Build(regex_expr)

SpecBuilds == Init /\ [][NextBuilds]_vars

NoDuplicates(list) == \A i, j \in 1..Len(list) : list[i] = list[j] => i = j

(* C20: get_closure terminates for every seed set on every graph a build   *)
(* produces: each node enters the worklist at most once, the worklist      *)
(* empties, and the set returned contains every seed.                      *)
C20_ClosureTerminates ==
    \A states \in SUBSET (1..Len(nodes)) :
        LET run == ClosureRun(Heap, states)
        IN /\ run.done
           /\ NoDuplicates(run.entered)
           /\ states \subseteq run.closing
           /\ run.closing = get_closure(Heap, states)

(* a wrapper that is an entry of its own next_states list, so the graph    *)
(* get_closure walks has a cycle, and a closure that leaves the seed       *)
C20_Witness ==
    \E x \in 1..Len(nodes) :
        /\ IsWrapper(Heap, x)
        /\ x \in Range(next_states(Heap, x))
        /\ ClosureRun(Heap, {x}).done
        /\ ClosureRun(Heap, {x}).closing # {x}

====
